---- MODULE Spec2Model ----
(***************************************************************************)
(* Model of SDLC_Principles.py: the numeric summary utilities              *)
(* (generate_numbers, calculate_average, find_max), the tabular summary    *)
(* utilities (load_data, calculate_column_mean, find_column_max,           *)
(* filter_by_category), the module-level "messy" code that precedes them   *)
(* and the two __main__ blocks.                                            *)
(*                                                                         *)
(* Python's float is modelled bit for bit: a float is a sign, a binary     *)
(* exponent and a 53-bit significand, and int / int is the correctly       *)
(* rounded quotient, so that "average * length = sum" is something the     *)
(* model can refute.                                                       *)
(***************************************************************************)
EXTENDS Integers, Sequences, FiniteSets, TLC

VARIABLES
    nums,   \* the list a caller holds and passes to the numeric utilities
    df,     \* the table a caller holds and passes to the tabular utilities
    ret,    \* the last call: its name, its arguments and its outcome
    \* the run of the file as a script
    pc,         \* the line about to run, "done" or "aborted"
    stdout,     \* the print calls made so far, each by its fixed text
    exc,        \* the unhandled exception and the line that raised it
    it,         \* the position of a for loop in the list it walks
    numbers, total, average, max_num,           \* lines 6-21
    avg, mx,                                    \* lines 93-104
    avg_sepal, max_petal, setosa_data           \* lines 211-224

callerVars == <<nums, df, ret>>
scriptVars == <<pc, stdout, exc, it, numbers, total, average, max_num,
                avg, mx, avg_sepal, max_petal, setosa_data>>
vars == <<nums, df, ret, pc, stdout, exc, it, numbers, total, average, max_num,
          avg, mx, avg_sepal, max_petal, setosa_data>>

\* ------------------------------------------------------------------ bounds
\* Largest count passed to generate_numbers by the numeric harness.
MaxCount == 7
\* The harness draws lower and upper from MinVal..MaxVal.
MinVal == 4
MaxVal == 5
\* Most rows of a table the tabular harness builds or loads.
MaxRows == 2
\* The harness passes limits (0 - 1)..MaxLimit and the default to filter_by_category.
MaxLimit == 2
\* Longest list the caller of the read-only queries holds.
MaxLen == 2
\* The script's lists have RunCount elements drawn from Lower..RunUpper, in
\* place of the 10 elements from 1..100 of lines 6, 45 and 63.
RunCount == 3
RunUpper == 3
\* Most rows of a table the script's fetches return.
RunRows == 1

\* Width of the significand of a Python float (IEEE 754 binary64).
MantBits == 53

\* ------------------------------------------------------------ float model
RECURSIVE IntBits(_)
\* Binary digits of n >= 0, most significant first; <<>> for 0.
IntBits(n) == IF n = 0 THEN <<>> ELSE IntBits(n \div 2) \o <<n % 2>>

RECURSIVE Zeros(_)
Zeros(k) == IF k <= 0 THEN <<>> ELSE <<0>> \o Zeros(k - 1)

FloatZero == [sign |-> 0, exp |-> 0, mant |-> Zeros(MantBits)]

Abs(n) == IF n < 0 THEN 0 - n ELSE n

RECURSIVE Pow2(_)
Pow2(k) == IF k <= 0 THEN 1 ELSE 2 * Pow2(k - 1)

RECURSIVE IncBits(_)
\* bits + 1 on a most-significant-first digit string; a carry out of the top
\* digit lengthens the string by one.
IncBits(bits) ==
    IF bits = <<>> THEN <<1>>
    ELSE LET n == Len(bits) IN
         IF bits[n] = 0 THEN SubSeq(bits, 1, n - 1) \o <<1>>
         ELSE IncBits(SubSeq(bits, 1, n - 1)) \o <<0>>

AnyOne(bits) == \E i \in 1..Len(bits) : bits[i] = 1

\* Round a significand of at least MantBits digits (leading digit 1, value
\* 1.xxx * 2^exp) to MantBits digits, ties to even; sticky tells that non-zero
\* digits follow the ones given.
RoundNearestEven(sign, exp, bits, sticky) ==
    LET kept  == SubSeq(bits, 1, MantBits)
        rest  == SubSeq(bits, MantBits + 1, Len(bits))
        guard == Len(rest) >= 1 /\ rest[1] = 1
        tail  == sticky \/ AnyOne(SubSeq(rest, 2, Len(rest)))
        up    == guard /\ (tail \/ kept[MantBits] = 1)
        inc   == IncBits(kept)
    IN  IF ~up THEN [sign |-> sign, exp |-> exp, mant |-> kept]
        ELSE IF Len(inc) > MantBits
             THEN [sign |-> sign, exp |-> exp + 1, mant |-> SubSeq(inc, 1, MantBits)]
             ELSE [sign |-> sign, exp |-> exp, mant |-> inc]

\* float(n) for an int whose magnitude has at most MantBits digits (exact).
FromInt(n) ==
    IF n = 0 THEN FloatZero
    ELSE LET b == IntBits(Abs(n)) IN
         [sign |-> IF n < 0 THEN 1 ELSE 0,
          exp  |-> Len(b) - 1,
          mant |-> b \o Zeros(MantBits - Len(b))]

RECURSIVE QuotBits(_, _, _)
\* The next k binary digits of r / den, 0 <= r < den.
QuotBits(r, den, k) ==
    IF k = 0 THEN <<>>
    ELSE LET b == IF 2 * r >= den THEN 1 ELSE 0
         IN  <<b>> \o QuotBits(2 * r - b * den, den, k - 1)

RECURSIVE RemAfter(_, _, _)
\* The remainder left after those k digits.
RemAfter(r, den, k) ==
    IF k = 0 THEN r
    ELSE RemAfter(2 * r - (IF 2 * r >= den THEN den ELSE 0), den, k - 1)

RECURSIVE ShiftUp(_, _)
\* The least k with a * 2^k >= d  (a >= 1).
ShiftUp(a, d) == IF a >= d THEN 0 ELSE 1 + ShiftUp(2 * a, d)

RECURSIVE ShiftDown(_, _)
\* The greatest k with d * 2^k <= a  (a >= d >= 1).
ShiftDown(a, d) == IF 2 * d > a THEN 0 ELSE 1 + ShiftDown(a, 2 * d)

\* n / d for ints n and d > 0: Python's true division, the float nearest to
\* the exact quotient (ties to even).
TrueDiv(n, d) ==
    IF n = 0 THEN FloatZero
    ELSE LET a    == Abs(n)
             up   == ShiftUp(a, d)
             down == IF a >= d THEN ShiftDown(a, d) ELSE 0
             num  == a * Pow2(up)
             den  == d * Pow2(down)
             r0   == num - den
             bits == <<1>> \o QuotBits(r0, den, MantBits)
             rem  == RemAfter(r0, den, MantBits)
         IN  RoundNearestEven(IF n < 0 THEN 1 ELSE 0, down - up, bits, rem # 0)

RECURSIVE MulBitsFrom(_, _, _, _)
\* The digit string bits[1..i] times the int k, plus carry.
MulBitsFrom(bits, k, i, carry) ==
    LET t == IF i = 0 THEN carry ELSE bits[i] * k + carry
    IN  IF t < 0 THEN <<>>
        ELSE IF i = 0 THEN IntBits(t)
        ELSE MulBitsFrom(bits, k, i - 1, t \div 2) \o <<t % 2>>

\* x * k for a float x and an int k: the float nearest to the exact product.
FloatMulInt(x, k) ==
    IF k = 0 \/ x = FloatZero THEN FloatZero
    ELSE LET p == MulBitsFrom(x.mant, Abs(k), MantBits, 0)
             s == IF k < 0 THEN 1 - x.sign ELSE x.sign
         IN  RoundNearestEven(s, x.exp + (Len(p) - MantBits), p, FALSE)

RECURSIVE BitsLE(_, _, _)
\* a <= b for digit strings of equal length, compared from digit i on.
BitsLE(a, b, i) ==
    IF i > Len(a) THEN TRUE
    ELSE IF a[i] # b[i] THEN a[i] < b[i]
    ELSE BitsLE(a, b, i + 1)

\* |x| <= |y|
MagLE(x, y) ==
    IF x = FloatZero THEN TRUE
    ELSE IF y = FloatZero THEN FALSE
    ELSE IF x.exp # y.exp THEN x.exp < y.exp
    ELSE BitsLE(x.mant, y.mant, 1)

\* x <= y
FloatLE(x, y) ==
    IF x.sign = 1 /\ y.sign = 0 THEN TRUE
    ELSE IF x.sign = 0 /\ y.sign = 1 THEN x = FloatZero /\ y = FloatZero
    ELSE IF x.sign = 0 THEN MagLE(x, y)
    ELSE MagLE(y, x)

\* The float is a whole number.
IsIntegral(x) ==
    \/ x = FloatZero
    \/ /\ x.exp >= 0
       /\ ~AnyOne(SubSeq(x.mant, x.exp + 2, MantBits))

\* ------------------------------------------------------------- outcomes
\* A call either returns a value or raises; msg is the exception's message,
\* outermost part first.
Return(v) == [kind |-> "ok", msg |-> <<>>, val |-> v]
Raise(cls, m) == [kind |-> cls, msg |-> m, val |-> 0]

\* The error kinds of the error taxonomy, read off the raised exception.
ErrorKind(o) ==
    IF o.kind = "ok" THEN "none"
    ELSE IF o.msg[1] = "List of numbers cannot be empty" THEN "empty-input"
    ELSE IF o.msg[1] = "Loaded data is empty" THEN "empty-data"
    ELSE IF o.msg[1] = "Failed to load data from" THEN "load-failure"
    ELSE IF o.msg[1] = "Column not found in DataFrame" THEN "column-not-found"
    ELSE IF o.msg[1] = "Column contains no data" THEN "empty-column"
    ELSE "other"

\* ------------------------------------------------- numeric summary utilities
\* random.randint(lower, upper): every int of lower..upper is a possible result;
\* an empty range raises.
randint(lower, upper) ==
    IF lower > upper
    THEN {Raise("ValueError", <<"empty range for randrange()">>)}
    ELSE {Return(x) : x \in lower..upper}

generate_numbers_open_upper(count, lower, upper) ==
    IF count <= 0 THEN {Return(<<>>)}
    ELSE IF lower > upper + 1
    THEN {Raise("ValueError", <<"empty range for randrange()">>)}
    ELSE {Return(s) : s \in [1..count -> lower..(upper + 1)]}

\* [random.randint(lower, upper) for _ in range(count)]: the set of possible
\* outcomes. range(count) is empty for count <= 0, and then randint is never
\* called; otherwise the first randint on an empty range raises.
generate_numbers(count, lower, upper) ==
    IF count <= 0 THEN {Return(<<>>)}
    ELSE IF \E o \in randint(lower, upper) : o.kind # "ok"
    THEN {o \in randint(lower, upper) : o.kind # "ok"}
    ELSE {Return(s) : s \in [1..count -> {o.val : o \in randint(lower, upper)}]}

RECURSIVE sum_skip_first(_)
sum_skip_first(ns) ==
    IF Len(ns) <= 1 THEN 0
    ELSE ns[Len(ns)] + sum_skip_first(SubSeq(ns, 1, Len(ns) - 1))

RECURSIVE sum(_)
\* The builtin sum of a list of ints.
sum(ns) ==
    IF ns = <<>> THEN 0
    ELSE sum(SubSeq(ns, 1, Len(ns) - 1)) + ns[Len(ns)]

RECURSIVE max_keeps_smaller(_)
max_keeps_smaller(ns) ==
    IF Len(ns) = 1 THEN ns[1]
    ELSE LET m == max_keeps_smaller(SubSeq(ns, 1, Len(ns) - 1))
         IN  IF ns[Len(ns)] < m THEN ns[Len(ns)] ELSE m

RECURSIVE max(_)
\* The builtin max of a non-empty list: it walks the list and keeps the item
\* seen so far that no later item exceeded.
max(ns) ==
    IF Len(ns) = 1 THEN ns[1]
    ELSE LET m == max(SubSeq(ns, 1, Len(ns) - 1))
         IN  IF ns[Len(ns)] > m THEN ns[Len(ns)] ELSE m

\* calculate_average written with // in place of /
calculate_average_floor_division(ns) ==
    IF ns = <<>>
    THEN Raise("ValueError", <<"List of numbers cannot be empty">>)
    ELSE Return(FromInt(sum(ns) \div Len(ns)))

calculate_average(ns) ==
    IF ns = <<>>
    THEN Raise("ValueError", <<"List of numbers cannot be empty">>)
    ELSE Return(TrueDiv(sum(ns), Len(ns)))

find_max_unchecked(ns) ==
    IF ns = <<>> THEN Return(0) ELSE Return(max(ns))

find_max(ns) ==
    IF ns = <<>>
    THEN Raise("ValueError", <<"List of numbers cannot be empty">>)
    ELSE Return(max(ns))

\* ------------------------------------------------- tabular summary utilities
\* A cell is numeric or categorical; a categorical cell holds the position of
\* its string in CategoryNames, which lists the strings in lexicographic order.
Num(n) == [tag |-> "num", v |-> n]
Str(i) == [tag |-> "str", v |-> i]
CategoryNames == <<"setosa", "virginica">>
NumCells == {Num(1), Num(2)}
StrCells == {Str(i) : i \in 1..Len(CategoryNames)}

ColumnNames == {"sepal_length", "petal_width", "species"}
ColumnCells(c) == IF c = "species" THEN StrCells ELSE NumCells

\* A DataFrame: its column labels and its rows in order, each row a function
\* from the column labels to cells.
Table(cols, rows) == [columns |-> cols, rows |-> rows]
EmptyTable == Table({}, <<>>)

RowsOver(cols) == {r \in [cols -> NumCells \cup StrCells] : \A c \in cols : r[c] \in ColumnCells(c)}

\* The tables over the columns of universe with at most k rows; a table with
\* no columns has no rows.
Tables(universe, k) ==
    UNION {
        IF cols = {} THEN {EmptyTable}
        ELSE UNION {{Table(cols, rows) : rows \in [1..n -> RowsOver(cols)]} : n \in 0..k}
        : cols \in SUBSET universe}

\* df.empty: an axis of length 0.
IsEmpty(t) == t.columns = {} \/ t.rows = <<>>

\* df[column]: the column's cells in row order.
Column(t, column) == [i \in 1..Len(t.rows) |-> t.rows[i][column]]

IRIS_URL == "https://raw.githubusercontent.com/mwaskom/seaborn-data/master/iris.csv"

\* pd.read_csv(url): what the fetch and the parse can give. A resource that
\* cannot be fetched or has no columns to parse raises; otherwise any table
\* with at least one column, the header-only table of zero rows included.
read_csv(url, universe, k) ==
    {Raise("URLError", <<"urlopen error">>),
     Raise("EmptyDataError", <<"No columns to parse from file">>)}
    \cup {Return(t) : t \in {u \in Tables(universe, k) : u.columns # {}}}

\* The body of load_data on one outcome of pd.read_csv. The raise of "Loaded
\* data is empty" sits inside the try block, so the except clause catches it
\* like any error of read_csv and wraps it.
load_data_of(url, fetched) ==
    IF fetched.kind # "ok"
    THEN Raise("ValueError", <<"Failed to load data from", url>> \o fetched.msg)
    ELSE IF IsEmpty(fetched.val)
    THEN Raise("ValueError", <<"Failed to load data from", url, "Loaded data is empty">>)
    ELSE Return(fetched.val)

load_data(url, universe, k) == {load_data_of(url, f) : f \in read_csv(url, universe, k)}

IntsOf(cells) == [i \in 1..Len(cells) |-> cells[i].v]
AllNumeric(cells) == \A i \in 1..Len(cells) : cells[i].tag = "num"
FloatNaN == [sign |-> 0, exp |-> 0, mant |-> <<>>]

\* Series.mean(): NaN for no values, the mean of numeric values, and a
\* TypeError for strings.
series_mean(cells) ==
    IF cells = <<>> THEN Return(FloatNaN)
    ELSE IF ~AllNumeric(cells)
    THEN Raise("TypeError", <<"Could not convert string to numeric">>)
    ELSE Return(TrueDiv(sum(IntsOf(cells)), Len(cells)))

\* Series.max(): NaN for no values, else the largest value (strings compare
\* lexicographically), as a cell.
series_max(cells) ==
    IF cells = <<>> THEN Return(FloatNaN)
    ELSE Return([tag |-> cells[1].tag, v |-> max(IntsOf(cells))])

calculate_column_mean_empty_first(t, column) ==
    IF t.rows = <<>>
    THEN Raise("ValueError", <<"Column contains no data", column>>)
    ELSE IF column \notin t.columns
    THEN Raise("ValueError", <<"Column not found in DataFrame", column>>)
    ELSE series_mean(Column(t, column))

calculate_column_mean(t, column) ==
    IF column \notin t.columns
    THEN Raise("ValueError", <<"Column not found in DataFrame", column>>)
    ELSE IF Column(t, column) = <<>>
    THEN Raise("ValueError", <<"Column contains no data", column>>)
    ELSE series_mean(Column(t, column))

find_column_max(t, column) ==
    IF column \notin t.columns
    THEN Raise("ValueError", <<"Column not found in DataFrame", column>>)
    ELSE IF Column(t, column) = <<>>
    THEN Raise("ValueError", <<"Column contains no data", column>>)
    ELSE series_max(Column(t, column))

RECURSIVE Select(_, _, _)
\* df[df[column] == value]: the rows whose cell equals value, in row order.
Select(rows, column, value) ==
    IF rows = <<>> THEN <<>>
    ELSE Select(SubSeq(rows, 1, Len(rows) - 1), column, value)
         \o (IF rows[Len(rows)][column] = value THEN <<rows[Len(rows)]>> ELSE <<>>)

head_takes_last(rows, n) ==
    IF n >= 0
    THEN SubSeq(rows, Len(rows) - (IF n < Len(rows) THEN n ELSE Len(rows)) + 1, Len(rows))
    ELSE SubSeq(rows, 1 - n, Len(rows))

\* DataFrame.head(n): the first n rows, and for a negative n all rows but the
\* last -n.
head(rows, n) ==
    IF n >= 0
    THEN SubSeq(rows, 1, IF n < Len(rows) THEN n ELSE Len(rows))
    ELSE SubSeq(rows, 1, Len(rows) + n)

DefaultLimit == 10

filter_by_category(t, column, value, limit) ==
    IF column \notin t.columns
    THEN Raise("ValueError", <<"Column not found in DataFrame", column>>)
    ELSE Return(Table(t.columns, head(Select(t.rows, column, value), limit)))

\* ------------------------------------------------- the numeric harness
\* A caller that builds lists with generate_numbers and passes the list it
\* holds to calculate_average and find_max, in any order, any number of times.
NoCall == [op |-> "none", args |-> <<>>, out |-> Return(0)]

\* A name that is not bound.
None == "None"

\* The script is not running while a caller uses the functions.
ScriptIdle ==
    /\ pc = "idle"
    /\ stdout = <<>>
    /\ exc = None
    /\ it = None
    /\ numbers = None /\ total = None /\ average = None /\ max_num = None
    /\ avg = None /\ mx = None
    /\ avg_sepal = None /\ max_petal = None /\ setosa_data = None

InitNum ==
    /\ nums = <<>>
    /\ df = EmptyTable
    /\ ret = NoCall
    /\ ScriptIdle

CallGenerateNumbers ==
    \E count \in (0 - 1)..MaxCount, lower \in MinVal..MaxVal, upper \in MinVal..MaxVal :
      \E o \in generate_numbers(count, lower, upper) :
        /\ ret' = [op |-> "generate_numbers", args |-> <<count, lower, upper>>, out |-> o]
        /\ nums' = IF o.kind = "ok" THEN o.val ELSE nums
        /\ df' = df
        /\ UNCHANGED scriptVars

CallCalculateAverage ==
    /\ ret' = [op |-> "calculate_average", args |-> <<>>, out |-> calculate_average(nums)]
    /\ nums' = nums
    /\ df' = df
    /\ UNCHANGED scriptVars

RECURSIVE Insert(_, _)
Insert(x, sorted) ==
    IF sorted = <<>> THEN <<x>>
    ELSE IF x <= sorted[1] THEN <<x>> \o sorted
    ELSE <<sorted[1]>> \o Insert(x, Tail(sorted))

RECURSIVE Sorted(_)
Sorted(ns) == IF ns = <<>> THEN <<>> ELSE Insert(ns[1], Sorted(Tail(ns)))

\* find_max written as numbers.sort(); return numbers[-1]
CallFindMax_sorts ==
    /\ ret' = [op |-> "find_max", args |-> <<>>, out |-> find_max(nums)]
    /\ nums' = Sorted(nums)
    /\ df' = df
    /\ UNCHANGED scriptVars

CallFindMax ==
    /\ ret' = [op |-> "find_max", args |-> <<>>, out |-> find_max(nums)]
    /\ nums' = nums
    /\ df' = df
    /\ UNCHANGED scriptVars

NextNum == CallGenerateNumbers \/ CallCalculateAverage \/ CallFindMax

SpecNum == InitNum /\ [][NextNum]_vars

\* ------------------------------------------------- the tabular harness
\* A caller that loads tables with load_data or builds them itself, and passes
\* the table it holds to the three queries, in any order, any number of times.
HarnessColumns == {"sepal_length", "species"}
Limits == ((0 - 1)..MaxLimit) \cup {DefaultLimit}

CallLoadData ==
    \E fetched \in read_csv(IRIS_URL, HarnessColumns, MaxRows) :
        LET o == load_data_of(IRIS_URL, fetched) IN
        /\ ret' = [op |-> "load_data", args |-> <<IRIS_URL, fetched>>, out |-> o]
        /\ df' = IF o.kind = "ok" THEN o.val ELSE df
        /\ nums' = nums
        /\ UNCHANGED scriptVars

\* The caller builds a DataFrame without load_data.
BuildTable ==
    \E t \in Tables(HarnessColumns, MaxRows) :
        /\ df' = t
        /\ ret' = NoCall
        /\ nums' = nums
        /\ UNCHANGED scriptVars

CallCalculateColumnMean ==
    \E column \in ColumnNames :
        /\ ret' = [op |-> "calculate_column_mean", args |-> <<column>>,
                   out |-> calculate_column_mean(df, column)]
        /\ df' = df
        /\ nums' = nums
        /\ UNCHANGED scriptVars

CallFindColumnMax ==
    \E column \in ColumnNames :
        /\ ret' = [op |-> "find_column_max", args |-> <<column>>,
                   out |-> find_column_max(df, column)]
        /\ df' = df
        /\ nums' = nums
        /\ UNCHANGED scriptVars

CallFilterByCategory ==
    \E column \in ColumnNames, value \in StrCells, limit \in Limits :
        /\ ret' = [op |-> "filter_by_category", args |-> <<column, value, limit>>,
                   out |-> filter_by_category(df, column, value, limit)]
        /\ df' = df
        /\ nums' = nums
        /\ UNCHANGED scriptVars

NextTab ==
    \/ CallLoadData
    \/ BuildTable
    \/ CallCalculateColumnMean
    \/ CallFindColumnMax
    \/ CallFilterByCategory

SpecTab == InitNum /\ [][NextTab]_vars

\* ------------------------------------------------- the read-only queries
\* A caller that holds one list and one table and passes them to the five
\* queries, in any order, any number of times.
InitFn ==
    /\ nums \in UNION {[1..n -> MinVal..MaxVal] : n \in 0..MaxLen}
    /\ df \in Tables(HarnessColumns, MaxRows)
    /\ ret = NoCall
    /\ ScriptIdle

NextFn ==
    \/ CallCalculateAverage
    \/ CallFindMax
    \/ CallCalculateColumnMean
    \/ CallFindColumnMax
    \/ CallFilterByCategory

SpecFn == InitFn /\ [][NextFn]_vars

\* ------------------------------------------------- the file run as a script
\* python SDLC_Principles.py runs the module top to bottom: the messy numeric
\* code, the numeric __main__ block, the messy pandas code and the tabular
\* __main__ block. pc names the line about to run. The names of a finished
\* section are never read again: they are dropped when the next section starts.
Lower == 1

Init ==
    /\ pc = "L6"
    /\ stdout = <<>>
    /\ exc = None
    /\ it = None
    /\ numbers = None /\ total = None /\ average = None /\ max_num = None
    /\ nums = None
    /\ df = None
    /\ avg = None /\ mx = None
    /\ avg_sepal = None /\ max_petal = None /\ setosa_data = None
    /\ ret = NoCall

\* An unhandled exception at line: the interpreter stops there.
Abort(line, o) ==
    /\ pc' = "aborted"
    /\ exc' = [line |-> line, error |-> o]
    /\ stdout' = stdout

Goto(line) == pc' = line /\ exc' = exc
print(text) == stdout' = Append(stdout, text)

\* numbers = [random.randint(1, 100) for _ in range(10)]
L6 ==
    /\ pc = "L6"
    /\ numbers' \in [1..RunCount -> Lower..RunUpper]
    /\ Goto("L7") /\ stdout' = stdout
    /\ UNCHANGED <<nums, df, ret, it, total, average, max_num, avg, mx,
                   avg_sepal, max_petal, setosa_data>>

\* print("Generated numbers:", numbers)
L7 ==
    /\ pc = "L7"
    /\ print("Generated numbers:")
    /\ Goto("L10")
    /\ UNCHANGED <<nums, df, ret, it, numbers, total, average, max_num, avg, mx,
                   avg_sepal, max_petal, setosa_data>>

\* total = 0, and the for loop of line 11 takes its iterator
L10 ==
    /\ pc = "L10"
    /\ total' = 0
    /\ it' = 1
    /\ Goto("L11") /\ stdout' = stdout
    /\ UNCHANGED <<nums, df, ret, numbers, average, max_num, avg, mx,
                   avg_sepal, max_petal, setosa_data>>

\* for n in numbers: the loop takes the next item and runs total += n
L12 ==
    /\ pc = "L11"
    /\ it <= Len(numbers)
    /\ total' = total + numbers[it]
    /\ it' = it + 1
    /\ Goto("L11") /\ stdout' = stdout
    /\ UNCHANGED <<nums, df, ret, numbers, average, max_num, avg, mx,
                   avg_sepal, max_petal, setosa_data>>

\* for n in numbers: the list is exhausted
L11 ==
    /\ pc = "L11"
    /\ it > Len(numbers)
    /\ Goto("L13") /\ stdout' = stdout
    /\ UNCHANGED <<nums, df, ret, it, numbers, total, average, max_num, avg, mx,
                   avg_sepal, max_petal, setosa_data>>

\* average = total / len(numbers)
L13 ==
    /\ pc = "L13"
    /\ average' = TrueDiv(total, Len(numbers))
    /\ Goto("L14") /\ stdout' = stdout
    /\ UNCHANGED <<nums, df, ret, it, numbers, total, max_num, avg, mx,
                   avg_sepal, max_petal, setosa_data>>

\* print("Average:", average)
L14 ==
    /\ pc = "L14"
    /\ print("Average:")
    /\ Goto("L17")
    /\ UNCHANGED <<nums, df, ret, it, numbers, total, average, max_num, avg, mx,
                   avg_sepal, max_petal, setosa_data>>

\* max_num = numbers[0], and the for loop of line 18 takes its iterator
L17 ==
    /\ pc = "L17"
    /\ max_num' = numbers[1]
    /\ it' = 1
    /\ Goto("L18") /\ stdout' = stdout
    /\ UNCHANGED <<nums, df, ret, numbers, total, average, avg, mx,
                   avg_sepal, max_petal, setosa_data>>

L19_replaces_smaller ==
    /\ pc = "L18"
    /\ it <= Len(numbers)
    /\ max_num' = IF numbers[it] < max_num THEN numbers[it] ELSE max_num
    /\ it' = it + 1
    /\ Goto("L18") /\ stdout' = stdout
    /\ UNCHANGED <<nums, df, ret, numbers, total, average, avg, mx,
                   avg_sepal, max_petal, setosa_data>>

\* for n in numbers: the loop takes the next item and runs
\* if n > max_num: max_num = n
L19 ==
    /\ pc = "L18"
    /\ it <= Len(numbers)
    /\ max_num' = IF numbers[it] > max_num THEN numbers[it] ELSE max_num
    /\ it' = it + 1
    /\ Goto("L18") /\ stdout' = stdout
    /\ UNCHANGED <<nums, df, ret, numbers, total, average, avg, mx,
                   avg_sepal, max_petal, setosa_data>>

\* for n in numbers: the list is exhausted
L18 ==
    /\ pc = "L18"
    /\ it > Len(numbers)
    /\ Goto("L21") /\ stdout' = stdout
    /\ UNCHANGED <<nums, df, ret, it, numbers, total, average, max_num, avg, mx,
                   avg_sepal, max_petal, setosa_data>>

\* print("Max:", max_num)
L21 ==
    /\ pc = "L21"
    /\ print("Max:")
    /\ Goto("L63")
    /\ UNCHANGED <<nums, df, ret, it, numbers, total, average, max_num, avg, mx,
                   avg_sepal, max_petal, setosa_data>>

\* nums = generate_numbers(10)
L63 ==
    /\ pc = "L63"
    /\ \E o \in generate_numbers(RunCount, Lower, RunUpper) :
          IF o.kind = "ok"
          THEN nums' = o.val /\ Goto("L64") /\ stdout' = stdout
          ELSE nums' = nums /\ Abort("L63", o)
    /\ numbers' = None /\ total' = None /\ average' = None /\ max_num' = None
    /\ it' = None
    /\ UNCHANGED <<df, ret, avg, mx, avg_sepal, max_petal, setosa_data>>

\* print("Generated numbers:", nums)
L64 ==
    /\ pc = "L64"
    /\ print("Generated numbers:")
    /\ Goto("L65")
    /\ UNCHANGED <<nums, df, ret, it, numbers, total, average, max_num, avg, mx,
                   avg_sepal, max_petal, setosa_data>>

\* print("Average:", calculate_average(nums))
L65 ==
    /\ pc = "L65"
    /\ LET o == calculate_average(nums) IN
          IF o.kind = "ok"
          THEN print("Average:") /\ Goto("L66")
          ELSE Abort("L65", o)
    /\ UNCHANGED <<nums, df, ret, it, numbers, total, average, max_num, avg, mx,
                   avg_sepal, max_petal, setosa_data>>

\* print("Max:", find_max(nums))
L66 ==
    /\ pc = "L66"
    /\ LET o == find_max(nums) IN
          IF o.kind = "ok"
          THEN print("Max:") /\ Goto("L93")
          ELSE Abort("L66", o)
    /\ UNCHANGED <<nums, df, ret, it, numbers, total, average, max_num, avg, mx,
                   avg_sepal, max_petal, setosa_data>>

\* df[column] of the messy code: a missing label raises KeyError.
getitem(t, column) ==
    IF column \notin t.columns THEN Raise("KeyError", <<column>>)
    ELSE Return(Column(t, column))

\* df = pd.read_csv("https://.../iris.csv")
L93 ==
    /\ pc = "L93"
    /\ \E o \in read_csv(IRIS_URL, ColumnNames, RunRows) :
          IF o.kind = "ok"
          THEN df' = o.val /\ Goto("L96") /\ stdout' = stdout
          ELSE df' = df /\ Abort("L93", o)
    /\ nums' = None
    /\ UNCHANGED <<ret, it, numbers, total, average, max_num, avg, mx,
                   avg_sepal, max_petal, setosa_data>>

\* avg = df['sepal_length'].mean()
L96 ==
    /\ pc = "L96"
    /\ LET c == getitem(df, "sepal_length")
           o == IF c.kind = "ok" THEN series_mean(c.val) ELSE c
       IN  IF o.kind = "ok"
           THEN avg' = o.val /\ Goto("L97") /\ stdout' = stdout
           ELSE avg' = avg /\ Abort("L96", o)
    /\ UNCHANGED <<nums, df, ret, it, numbers, total, average, max_num, mx,
                   avg_sepal, max_petal, setosa_data>>

\* print("Average sepal length:", avg)
L97 ==
    /\ pc = "L97"
    /\ print("Average sepal length:")
    /\ Goto("L100")
    /\ UNCHANGED <<nums, df, ret, it, numbers, total, average, max_num, avg, mx,
                   avg_sepal, max_petal, setosa_data>>

\* mx = df['petal_width'].max()
L100 ==
    /\ pc = "L100"
    /\ LET c == getitem(df, "petal_width")
           o == IF c.kind = "ok" THEN series_max(c.val) ELSE c
       IN  IF o.kind = "ok"
           THEN mx' = o.val /\ Goto("L101") /\ stdout' = stdout
           ELSE mx' = mx /\ Abort("L100", o)
    /\ UNCHANGED <<nums, df, ret, it, numbers, total, average, max_num, avg,
                   avg_sepal, max_petal, setosa_data>>

\* print("Max petal width:", mx)
L101 ==
    /\ pc = "L101"
    /\ print("Max petal width:")
    /\ Goto("L104")
    /\ UNCHANGED <<nums, df, ret, it, numbers, total, average, max_num, avg, mx,
                   avg_sepal, max_petal, setosa_data>>

\* print(df[df['species'] == 'setosa'].head())
L104 ==
    /\ pc = "L104"
    /\ LET c == getitem(df, "species") IN
          IF c.kind = "ok"
          THEN print("rows") /\ Goto("L211")
          ELSE Abort("L104", c)
    /\ UNCHANGED <<nums, df, ret, it, numbers, total, average, max_num, avg, mx,
                   avg_sepal, max_petal, setosa_data>>

\* df = load_data(IRIS_URL)
L211 ==
    /\ pc = "L211"
    /\ \E o \in load_data(IRIS_URL, ColumnNames, RunRows) :
          IF o.kind = "ok"
          THEN df' = o.val /\ Goto("L214") /\ stdout' = stdout
          ELSE df' = df /\ Abort("L211", o)
    /\ UNCHANGED <<nums, ret, it, numbers, total, average, max_num, avg, mx,
                   avg_sepal, max_petal, setosa_data>>

\* avg_sepal = calculate_column_mean(df, 'sepal_length')
L214 ==
    /\ pc = "L214"
    /\ LET o == calculate_column_mean(df, "sepal_length") IN
          IF o.kind = "ok"
          THEN avg_sepal' = o.val /\ Goto("L215") /\ stdout' = stdout
          ELSE avg_sepal' = avg_sepal /\ Abort("L214", o)
    /\ UNCHANGED <<nums, df, ret, it, numbers, total, average, max_num, avg, mx,
                   max_petal, setosa_data>>

\* print(f"Average sepal length: {avg_sepal}")
L215 ==
    /\ pc = "L215"
    /\ print("Average sepal length:")
    /\ Goto("L218")
    /\ UNCHANGED <<nums, df, ret, it, numbers, total, average, max_num, avg, mx,
                   avg_sepal, max_petal, setosa_data>>

L218_goes_on ==
    /\ pc = "L218"
    /\ LET o == find_column_max(df, "petal_width") IN
          /\ max_petal' = IF o.kind = "ok" THEN o.val ELSE max_petal
          /\ Goto("L219") /\ stdout' = stdout
    /\ UNCHANGED <<nums, df, ret, it, numbers, total, average, max_num, avg, mx,
                   avg_sepal, setosa_data>>

\* max_petal = find_column_max(df, 'petal_width')
L218 ==
    /\ pc = "L218"
    /\ LET o == find_column_max(df, "petal_width") IN
          IF o.kind = "ok"
          THEN max_petal' = o.val /\ Goto("L219") /\ stdout' = stdout
          ELSE max_petal' = max_petal /\ Abort("L218", o)
    /\ UNCHANGED <<nums, df, ret, it, numbers, total, average, max_num, avg, mx,
                   avg_sepal, setosa_data>>

\* print(f"Max petal width: {max_petal}")
L219 ==
    /\ pc = "L219"
    /\ print("Max petal width:")
    /\ Goto("L222")
    /\ UNCHANGED <<nums, df, ret, it, numbers, total, average, max_num, avg, mx,
                   avg_sepal, max_petal, setosa_data>>

\* setosa_data = filter_by_category(df, 'species', 'setosa')
L222 ==
    /\ pc = "L222"
    /\ LET o == filter_by_category(df, "species", Str(1), DefaultLimit) IN
          IF o.kind = "ok"
          THEN setosa_data' = o.val /\ Goto("L223") /\ stdout' = stdout
          ELSE setosa_data' = setosa_data /\ Abort("L222", o)
    /\ UNCHANGED <<nums, df, ret, it, numbers, total, average, max_num, avg, mx,
                   avg_sepal, max_petal>>

\* print("\nSetosa species (first 10 rows):")
L223 ==
    /\ pc = "L223"
    /\ print("Setosa species (first 10 rows):")
    /\ Goto("L224")
    /\ UNCHANGED <<nums, df, ret, it, numbers, total, average, max_num, avg, mx,
                   avg_sepal, max_petal, setosa_data>>

\* print(setosa_data)
L224 ==
    /\ pc = "L224"
    /\ print("rows")
    /\ Goto("done")
    /\ UNCHANGED <<nums, df, ret, it, numbers, total, average, max_num, avg, mx,
                   avg_sepal, max_petal, setosa_data>>

Next ==
    \/ L6 \/ L7 \/ L10 \/ L11 \/ L12 \/ L13 \/ L14 \/ L17 \/ L18 \/ L19 \/ L21
    \/ L63 \/ L64 \/ L65 \/ L66
    \/ L93 \/ L96 \/ L97 \/ L100 \/ L101 \/ L104
    \/ L211 \/ L214 \/ L215 \/ L218 \/ L219 \/ L222 \/ L223 \/ L224

Spec == Init /\ [][Next]_vars

\* ------------------------------------------------- claims: numeric utilities
Elems(ns) == {ns[i] : i \in 1..Len(ns)}

RECURSIVE Total(_)
\* The sum of the elements of a list, first element first.
Total(ns) == IF ns = <<>> THEN 0 ELSE ns[1] + Total(Tail(ns))

IsGenerate == ret.op = "generate_numbers"
GenCount == ret.args[1]
GenLower == ret.args[2]
GenUpper == ret.args[3]

GeneratedInRange ==
    /\ ret.out.kind = "ok"
    /\ Len(ret.out.val) = GenCount
    /\ \A i \in 1..Len(ret.out.val) :
          GenLower <= ret.out.val[i] /\ ret.out.val[i] <= GenUpper

\* C1 as stated: for every count >= 0 and every pair of bounds,
\* generate_numbers returns exactly count ints, each within [lower, upper].
C1_AsStated == (IsGenerate /\ GenCount >= 0) => GeneratedInRange

\* C1 amended: for every count >= 0, generate_numbers returns exactly count
\* ints within [lower, upper] when count = 0 or lower <= upper (count = 0 gives
\* the empty list whatever the bounds); with count > 0 and lower > upper it
\* raises the random source's ValueError and returns nothing.
C1_GenerateNumbers ==
    (IsGenerate /\ GenCount >= 0) =>
        IF GenCount = 0 \/ GenLower <= GenUpper
        THEN GeneratedInRange
        ELSE ret.out.kind = "ValueError" /\ ErrorKind(ret.out) = "other"

C1_Witness ==
    /\ IsGenerate /\ GenCount >= 2 /\ GenLower < GenUpper
    /\ ret.out.kind = "ok"
    /\ ret.out.val[1] = GenLower /\ ret.out.val[2] = GenUpper
    /\ nums = ret.out.val

IsAverage == ret.op = "calculate_average" /\ nums # <<>>

Smallest(ns) ==
    CHOOSE x \in Elems(ns) : \A y \in Elems(ns) : x <= y
Largest(ns) ==
    CHOOSE x \in Elems(ns) : \A y \in Elems(ns) : x >= y

Between(x, ns) ==
    /\ FloatLE(FromInt(Smallest(ns)), x)
    /\ FloatLE(x, FromInt(Largest(ns)))

\* a <= b for digit strings read as binary numbers.
BitsNumLE(a, b) ==
    LET n == IF Len(a) > Len(b) THEN Len(a) ELSE Len(b)
    IN  BitsLE(Zeros(n - Len(a)) \o a, Zeros(n - Len(b)) \o b, 1)

\* The positive float x is within half a unit in its last place of n / d:
\* with M the significand read as an int, |2 M d - n 2^(MantBits - exp)| <= d.
NearestTo(x, n, d) ==
    LET a == MulBitsFrom(x.mant, 2 * d, MantBits, 0)
        b == IntBits(n) \o Zeros(MantBits - x.exp)
    IN  /\ BitsNumLE(a, MulBitsFrom(b, 1, Len(b), d))
        /\ BitsNumLE(b, MulBitsFrom(a, 1, Len(a), d))

\* C3 as stated: the average times the length is the sum, and the average lies
\* between the smallest and the largest element.
C3_AsStated ==
    IsAverage =>
        /\ ret.out.kind = "ok"
        /\ FloatMulInt(ret.out.val, Len(nums)) = FromInt(Total(nums))
        /\ Between(ret.out.val, nums)

\* C3 amended: for every non-empty list of ints whose elements and sum have
\* magnitude at most 2^53, calculate_average returns the float nearest to
\* sum / length; result * length = sum holds whenever the length divides the
\* sum (calculate_average([2,4,6]) = 4.0); the result lies between the
\* smallest and the largest element.
C3_Average ==
    IsAverage =>
        /\ ret.out.kind = "ok"
        /\ NearestTo(ret.out.val, Total(nums), Len(nums))
        /\ (Total(nums) % Len(nums) = 0) =>
              /\ ret.out.val = FromInt(Total(nums) \div Len(nums))
              /\ FloatMulInt(ret.out.val, Len(nums)) = FromInt(Total(nums))
        /\ Between(ret.out.val, nums)

C3_Witness ==
    /\ IsAverage /\ Len(nums) = 3 /\ Total(nums) % 3 # 0
    /\ Smallest(nums) < Largest(nums)
    /\ ret.out.kind = "ok" /\ ~IsIntegral(ret.out.val)

\* C4: on a non-empty list find_max returns an element of the list that is
\* greater than or equal to every element.
C4_FindMax ==
    (ret.op = "find_max" /\ nums # <<>>) =>
        /\ ret.out.kind = "ok"
        /\ ret.out.val \in Elems(nums)
        /\ \A y \in Elems(nums) : ret.out.val >= y

C4_Witness ==
    /\ ret.op = "find_max" /\ Len(nums) >= 3
    /\ nums[1] < nums[2] /\ nums[3] < nums[2]
    /\ ret.out.kind = "ok" /\ ret.out.val = nums[2]

\* ------------------------------------------------- claims: tabular utilities
IsLoad == ret.op = "load_data"
Fetched == ret.args[2]

\* C5 as stated: load_data fails with the empty-data error kind on a
\* well-formed table of zero rows, fails with the load-failure kind wrapping
\* the underlying error when the fetch or the parse fails, and returns a table
\* only when that table has at least one row.
C5_AsStated ==
    IsLoad =>
        /\ (Fetched.kind = "ok" /\ Fetched.val.rows = <<>>) =>
              ErrorKind(ret.out) = "empty-data"
        /\ Fetched.kind # "ok" =>
              /\ ErrorKind(ret.out) = "load-failure"
              /\ SubSeq(ret.out.msg, 3, Len(ret.out.msg)) = Fetched.msg
        /\ ret.out.kind = "ok" => Len(ret.out.val.rows) >= 1

IsColumnQuery == ret.op \in {"calculate_column_mean", "find_column_max"}
QueryColumn == ret.args[1]
QueryCells == Column(df, QueryColumn)

\* The outcome is the mean (the float nearest to it) or the maximum of the
\* cells of the queried column.
IsMeanOf(o, cells) ==
    /\ o.kind = "ok"
    /\ AllNumeric(cells)
    /\ NearestTo(o.val, Total(IntsOf(cells)), Len(cells))
IsMaxOf(o, cells) ==
    /\ o.kind = "ok"
    /\ \E i \in 1..Len(cells) : o.val = cells[i]
    /\ \A i \in 1..Len(cells) : o.val.v >= cells[i].v

IsFilter == ret.op = "filter_by_category"
FilterColumn == ret.args[1]
FilterValue == ret.args[2]
FilterLimit == ret.args[3]

\* The positions of the rows of df whose cell in the filter column equals the
\* filter value.
Matching == {i \in 1..Len(df.rows) : df.rows[i][FilterColumn] = FilterValue}
\* The position of the j-th matching row.
NthMatching(j) ==
    CHOOSE i \in Matching : Cardinality({k \in Matching : k <= i}) = j

\* The result holds exactly the first n matching rows, in row order.
IsFirstMatching(o, n) ==
    /\ o.kind = "ok"
    /\ o.val.columns = df.columns
    /\ Len(o.val.rows) = n
    /\ \A j \in 1..n : o.val.rows[j] = df.rows[NthMatching(j)]

Least(a, b) == IF a < b THEN a ELSE b

ProgramOrder ==
    <<"L6", "L7", "L10", "L11", "L13", "L14", "L17", "L18", "L21",
      "L63", "L64", "L65", "L66",
      "L93", "L96", "L97", "L100", "L101", "L104",
      "L211", "L214", "L215", "L218", "L219", "L222", "L223", "L224", "done">>
PrintLines ==
    {"L7", "L14", "L21", "L64", "L65", "L66", "L97", "L101", "L104",
     "L215", "L219", "L223", "L224"}
ScriptOutput ==
    <<"Generated numbers:", "Average:", "Max:",
      "Generated numbers:", "Average:", "Max:",
      "Average sepal length:", "Max petal width:", "rows",
      "Average sepal length:", "Max petal width:",
      "Setosa species (first 10 rows):", "rows">>

Position(line) == CHOOSE k \in 1..Len(ProgramOrder) : ProgramOrder[k] = line
PrintsBefore(line) ==
    Cardinality({k \in 1..(Position(line) - 1) : ProgramOrder[k] \in PrintLines})
\* The line the run is at: the line about to run, or the one that raised.
At == IF pc = "aborted" THEN exc.line ELSE pc
Reached(line) == Position(At) > Position(line) \/ (At = line /\ pc # "aborted")

\* C9: the output lines appear in a fixed order (numeric group: generated
\* values, average, maximum; tabular group: average, maximum, filtered
\* preview); a step that fails aborts the run at that step: the lines printed
\* by the earlier steps remain and no line of a later step is printed. At every
\* point of the run the output is exactly the print calls that precede the
\* current (or the failed) line, and a line past a step is reached only when
\* that step succeeded.
C9_OutputOrder ==
    /\ stdout = SubSeq(ScriptOutput, 1, PrintsBefore(At))
    /\ Reached("L66") /\ Position(At) < Position("L93") =>
          calculate_average(nums).kind = "ok"
    /\ Reached("L215") => calculate_column_mean(df, "sepal_length").kind = "ok"
    /\ Reached("L219") => find_column_max(df, "petal_width").kind = "ok"
    /\ Reached("L223") =>
          filter_by_category(df, "species", Str(1), DefaultLimit).kind = "ok"

C9_Witness ==
    /\ pc = "aborted" /\ exc.line = "L218"
    /\ ErrorKind(exc.error) = "column-not-found"
    /\ Len(stdout) = 10 /\ stdout[10] = "Average sepal length:"

\* C10: the refactored functions compute what the messy code computes: the
\* loop that accumulates a total and divides by the length gives the value of
\* calculate_average, and the loop that starts from the first element and
\* replaces it by every strictly larger one gives the value of find_max.
C10_SameAsMessy ==
    /\ pc = "L14" => average = calculate_average(numbers).val
    /\ pc = "L21" => max_num = find_max(numbers).val

C10_Witness ==
    /\ pc = "L21"
    /\ numbers[1] < numbers[2] /\ numbers[3] < numbers[2]
    /\ max_num = numbers[2]
    /\ ~IsIntegral(average)

====
